---- MODULE Spec2Model ----
(***************************************************************************)
(* State-machine model of sentry-tauri: the panic integration              *)
(* (src/src/panic.rs) and the Tauri plugin facade (src/src/lib.rs).        *)
(*                                                                         *)
(* Threads of one process call init, panic, and invoke the bridged         *)
(* commands.  The sentry client is the sink: what reaches capture_event,   *)
(* add_breadcrumb and flush is logged.  An Option is a sequence of length  *)
(* 0 (None) or 1 (Some).                                                   *)
(***************************************************************************)
EXTENDS Naturals, Sequences, FiniteSets

\* ------------------------------------------------------------- bounds
NumThreads == 2
MaxInits == 2
MaxPanics == 2
MaxBridge == 1
MaxCrumbs == 1
MaxRunEvents == 1
MaxSignals == 2
DumpSize == 2

Threads == 1..NumThreads

VARIABLES
    platform,   \* the cfg(target_os) the crate was built for
    once,       \* INIT: "Incomplete" | "Running" | "Complete"
    installs,   \* counts: hook takes, hook sets, signal registrations, closure completions
    hook,       \* the process panic hook, outermost layer first
    sigsegv,    \* SIGSEGV disposition
    hubClient,  \* the client bound to the hub: Option of [integrations, options]
    scope,      \* per thread: the hub's scope stack, each scope its attachments
    fs,         \* the file at get_dump_fn()
    pc,         \* per thread: position
    loc,        \* per thread: locals
    panics,     \* per panic occurrence: what happened while it was handled
    sink,       \* envelopes handed to capture_event, in order
    crumbs,     \* breadcrumbs handed to add_breadcrumb
    bridgeIn,   \* events the bridged event command was called with
    flushes,    \* flush requests made to the client
    runEvents,  \* run events delivered to the plugin's on_event
    inits,      \* calls of init so far
    mainPc,     \* the process: "running" | "exit_flush" | "exited" | "aborted" | "killed"
    signals,    \* per SIGSEGV delivery: what sigsegv_handler did
    stderr      \* lines written to standard error by this crate

vars == <<platform, once, installs, hook, sigsegv, hubClient, scope, fs,
          pc, loc, panics, sink, crumbs, bridgeIn, flushes, runEvents, inits, mainPc,
          signals, stderr>>

\* ------------------------------------------------------------- data
\* The macos build takes the same steps as the linux build here (cfg(unix); the
\* writer's dump returns the bytes it wrote), so one of the two stands for both.
Platforms == {"linux", "windows"}
\* The panic hook registered before installation (a probe of the host, or std's
\* default hook under another name).
PrevHook == "prev_hook"

IsUnix(p) == p \in {"linux"}

\* Panic payloads: Box<dyn Any> holding a &'static str, a String, or something else.
Payloads ==
    { [shape |-> "str", text |-> "boom"],
      [shape |-> "String", text |-> "oops"],
      [shape |-> "other", text |-> "42"] }

\* sentry::protocol::Event, the fields the program touches; Default::default().
DefaultEvent ==
    [exception |-> <<>>, level |-> "error", platform |-> "other", message |-> "none"]

\* An extractor: a closure from the panic info to Option<Event>.
Extractor(id, accepts) == [id |-> id, accepts |-> accepts]

CustomEvent(id) ==
    [DefaultEvent EXCEPT !.message = IF id = 1 THEN "custom 1" ELSE "custom 2",
                         !.level = "warning"]

CallExtractor(ex, payload) ==
    IF payload.shape \in ex.accepts THEN <<CustomEvent(ex.id)>> ELSE <<>>

E1 == Extractor(1, {"String"})
E2 == Extractor(2, {"String", "other"})

\* ------------------------------------------------------------- panic.rs

\* get_dump_fn: <temp dir>/dump_<pid>.mdmp; one process, one pid.
get_dump_fn == "tmp/dump_pid.mdmp"

\* The bytes the minidump writer produces for one capture.
DumpBytes(id) == [i \in 1..DumpSize |-> <<id, i>>]

\* A write of bytes at offset off of the file's data.
WriteAt(data, off, bytes) ==
    LET end == off + Len(bytes)
    IN  SubSeq(data, 1, off) \o bytes \o SubSeq(data, end + 1, Len(data))

PanicIntegration_default == [name |-> "panic", extractors |-> <<>>]

add_extractor(self, f) == [self EXCEPT !.extractors = Append(@, f)]

message_from_panic_info_text(payload) == payload.text

message_from_panic_info(payload) ==
    IF payload.shape = "str" THEN payload.text
    ELSE IF payload.shape = "String" THEN payload.text
    ELSE "Box<Any>"

\* The default builder of event_from_panic_info.
DefaultBuilder_handled(payload) ==
    [DefaultEvent EXCEPT
        !.exception = <<[ty |-> "panic",
                         mechanism |-> <<[ty |-> "panic", handled |-> <<TRUE>>]>>,
                         value |-> <<message_from_panic_info(payload)>>,
                         stacktrace |-> "current_stacktrace"]>>,
        !.level = "fatal"]

DefaultBuilder(payload) ==
    [DefaultEvent EXCEPT
        !.exception = <<[ty |-> "panic",
                         mechanism |-> <<[ty |-> "panic", handled |-> <<FALSE>>]>>,
                         value |-> <<message_from_panic_info(payload)>>,
                         stacktrace |-> "current_stacktrace"]>>,
        !.level = "fatal"]

\* The for loop over self.extractors from index k on; called: the extractors run so far.
RECURSIVE ExtractorLoop(_, _, _, _)
ExtractorLoop(exs, k, payload, called) ==
    IF k > Len(exs)
    THEN [found |-> <<>>, called |-> called]
    ELSE LET r == CallExtractor(exs[k], payload)
         IN  IF r # <<>>
             THEN [found |-> r, called |-> Append(called, exs[k].id)]
             ELSE ExtractorLoop(exs, k + 1, payload, Append(called, exs[k].id))

\* A loop that keeps the last match instead of returning at the first.
RECURSIVE ExtractorLoopLast(_, _, _, _, _)
ExtractorLoopLast(exs, k, payload, called, best) ==
    IF k > Len(exs)
    THEN [found |-> best, called |-> called]
    ELSE LET r == CallExtractor(exs[k], payload)
         IN  ExtractorLoopLast(exs, k + 1, payload, Append(called, exs[k].id),
                               IF r # <<>> THEN r ELSE best)

event_from_panic_info_last(self, payload) ==
    LET r == ExtractorLoopLast(self.extractors, 1, payload, <<>>, <<>>)
    IN  IF r.found # <<>>
        THEN [event |-> r.found[1], called |-> r.called, builder |-> FALSE,
              msg |-> <<>>]
        ELSE [event |-> DefaultBuilder(payload), called |-> r.called,
              builder |-> TRUE, msg |-> <<message_from_panic_info(payload)>>]

event_from_panic_info(self, payload) ==
    LET r == ExtractorLoop(self.extractors, 1, payload, <<>>)
    IN  IF r.found # <<>>
        THEN [event |-> r.found[1], called |-> r.called, builder |-> FALSE,
              msg |-> <<>>]
        ELSE [event |-> DefaultBuilder(payload), called |-> r.called,
              builder |-> TRUE, msg |-> <<message_from_panic_info(payload)>>]

\* The once gate of INIT.call_once: what a caller does in each state.
OnceGate_always(state) == "run"

OnceGate(state) ==
    CASE state = "Incomplete" -> "run"
      [] state = "Running" -> "wait"
      [] state = "Complete" -> "skip"

\* The chained hook set by setup: panic_handler(info); next(info).
ChainedHook_handler_last(next) == next \o <<"chained">>

ChainedHook(next) == <<"chained">> \o next

\* sentry::with_integration::<PanicIntegration>: the first integration of that type
\* of the client bound to the hub.  A variant that falls back on a default
\* integration when there is none.
FindIntegration_fallback(client) ==
    IF client = <<>> THEN <<PanicIntegration_default>>
    ELSE LET l == client[1].integrations
             idx == {i \in 1..Len(l) : l[i].name = "panic"}
         IN  IF idx = {} THEN <<PanicIntegration_default>>
             ELSE <<l[CHOOSE i \in idx : \A j \in idx : i <= j]>>

FindIntegration(client) ==
    IF client = <<>> THEN <<>>
    ELSE LET l == client[1].integrations
             idx == {i \in 1..Len(l) : l[i].name = "panic"}
         IN  IF idx = {} THEN <<>>
             ELSE <<l[CHOOSE i \in idx : \A j \in idx : i <= j]>>

\* What panic_handler meets in the hub: whether a client is bound, and whether a
\* PanicIntegration is among its integrations.
ClientSeen(client) ==
    [bound |-> client # <<>>,
     has |-> /\ client # <<>>
             /\ \E i \in DOMAIN client[1].integrations :
                    client[1].integrations[i].name = "panic"]

\* The attachment panic_handler adds to the scope.
MinidumpAttachment(buffer, filename) ==
    [buffer |-> buffer, filename |-> filename, ty |-> <<"minidump">>]

\* ------------------------------------------------------------- lib.rs

Other(n) == [name |-> n, extractors |-> <<>>]

Custom == add_extractor(add_extractor(PanicIntegration_default, E1), E2)

CallerLists == { <<>>, <<Other("a"), Custom>> }

Options == [default_integrations : BOOLEAN, integrations : CallerLists]

NoOptions == [default_integrations |-> FALSE, integrations |-> <<>>]

\* Vec::insert(index, element), index counted from 0.
VecInsert(v, index, x) == SubSeq(v, 1, index) \o <<x>> \o SubSeq(v, index + 1, Len(v))

\* The client options init hands to sentry::init.
init_options_push(options) ==
    IF options.default_integrations
    THEN [options EXCEPT !.integrations = Append(@, PanicIntegration_default)]
    ELSE options

init_options(options) ==
    IF options.default_integrations
    THEN [options EXCEPT !.integrations = VecInsert(@, 0, PanicIntegration_default)]
    ELSE options

\* The bridged event command: what it hands to capture_event.
event_command_keep(event) == event

event_command(event) == [event EXCEPT !.platform = "javascript"]

BridgeEvents ==
    { [DefaultEvent EXCEPT !.platform = p, !.level = l, !.message = "from js"] :
        p \in {"other", "javascript", "native"}, l \in {"info"} }

RunEventKinds == {"Exit", "ExitRequested", "Ready"}

EXIT_FLUSH_SECS == 5

\* on_event: the flushes the plugin requests for a run event.
on_event_flushes_always(event) == <<[site |-> "exit", timeout |-> <<EXIT_FLUSH_SECS>>]>>

on_event_flushes(event) ==
    IF event = "Exit"
    THEN <<[site |-> "exit", timeout |-> <<EXIT_FLUSH_SECS>>]>>
    ELSE <<>>

\* ------------------------------------------------------------- state

LocInit ==
    [options |-> NoOptions, caller |-> NoOptions, idx |-> 0, next |-> <<>>, info |-> 0, hookRem |-> <<>>,
     integ |-> <<>>, off |-> 0, sig |-> 0, blocked |-> FALSE]

Init ==
    /\ platform \in Platforms
    /\ once = "Incomplete"
    /\ installs = [take |-> 0, set |-> 0, signal |-> 0, done |-> 0, sigerr |-> 0]
    /\ hook = <<PrevHook>>
    /\ sigsegv = "SIG_DFL"
    /\ hubClient = <<>>
    /\ scope = [t \in Threads |-> << <<>> >>]
    /\ fs = [exists |-> FALSE, data |-> <<>>]
    /\ pc = [t \in Threads |-> "idle"]
    /\ loc = [t \in Threads |-> LocInit]
    /\ panics = <<>>
    /\ sink = <<>>
    /\ crumbs = <<>>
    /\ bridgeIn = <<>>
    /\ flushes = <<>>
    /\ runEvents = <<>>
    /\ inits = 0
    /\ mainPc = "running"
    /\ signals = <<>>
    /\ stderr = <<>>

\* The process has neither exited nor been terminated.
Alive == mainPc \notin {"exited", "aborted", "killed"}

\* The positions of a thread inside panic_handler, and inside sigsegv_handler.
HandlerPcs == {"ph_with_integration", "wm_create", "wm_dump", "wm_read",
               "ph_callback", "ph_flush"}

SigPcs == {"sig_eprintln", "sig_unblock", "sig_panic"}

\* Threads that hold the read lock of the panic hook (they are running it).
InHook(t) ==
    \/ pc[t] \in {"hook"} \cup HandlerPcs
    \/ pc[t] \in SigPcs /\ loc[t].info # 0

HookWriteLockFree == \A t \in Threads : ~InHook(t)

\* ------------------------------------------------------------- init (lib.rs)

\* The first index from i on of an integration whose setup is this crate's
\* (PanicIntegration::setup); the setups of the others do nothing here.
RECURSIVE NextSetup(_, _)
NextSetup(l, i) ==
    IF i > Len(l) \/ l[i].name = "panic" THEN i ELSE NextSetup(l, i + 1)

InitPc(l, i) == IF i > Len(l) THEN "init_bind" ELSE "setup"

\* init: builds the client options and enters sentry::init, where the client runs
\* the setup of each integration in order.
CallInit(t, options) ==
    /\ Alive
    /\ pc[t] = "idle"
    /\ inits < MaxInits
    /\ inits' = inits + 1
    /\ LET o == init_options(options)
           i == NextSetup(o.integrations, 1)
       IN  /\ pc' = [pc EXCEPT ![t] = InitPc(o.integrations, i)]
           /\ loc' = [loc EXCEPT ![t] = [LocInit EXCEPT !.options = o,
                                                        !.caller = options, !.idx = i]]
    /\ UNCHANGED <<platform, once, installs, hook, sigsegv, hubClient, scope,
                   fs, panics, sink, crumbs, bridgeIn, flushes, runEvents, mainPc,
                   signals, stderr>>

\* sentry::init: the client, its integrations set up, is bound to the hub.
InitBind(t) ==
    /\ Alive
    /\ pc[t] = "init_bind"
    /\ hubClient' = <<[integrations |-> loc[t].options.integrations,
                       caller |-> loc[t].caller]>>
    /\ pc' = [pc EXCEPT ![t] = "idle"]
    /\ loc' = [loc EXCEPT ![t] = LocInit]
    /\ UNCHANGED <<platform, once, installs, hook, sigsegv, scope, fs, panics,
                   sink, crumbs, bridgeIn, flushes, runEvents, inits, mainPc,
                   signals, stderr>>

\* The setup of the integration at idx has returned.
SetupReturn(t) ==
    LET l == loc[t].options.integrations
        i == NextSetup(l, loc[t].idx + 1)
    IN  /\ pc' = [pc EXCEPT ![t] = InitPc(l, i)]
        /\ loc' = [loc EXCEPT ![t].idx = i, ![t].next = <<>>]

\* ------------------------------------------------------------- setup (panic.rs)

\* PanicIntegration::setup: INIT.call_once(closure).  A caller that finds the Once
\* running blocks until it completes.
SetupEnter(t) ==
    /\ Alive
    /\ pc[t] = "setup"
    /\ OnceGate(once) # "wait"
    /\ IF OnceGate(once) = "run"
       THEN /\ once' = "Running"
            /\ pc' = [pc EXCEPT ![t] = "once_take"]
            /\ UNCHANGED loc
       ELSE /\ SetupReturn(t)
            /\ UNCHANGED once
    /\ UNCHANGED <<platform, installs, hook, sigsegv, hubClient, scope, fs,
                   panics, sink, crumbs, bridgeIn, flushes, runEvents, inits, mainPc,
                   signals, stderr>>

\* let next = panic::take_hook(): takes the hook's write lock, leaves the default hook.
TakeHook(t) ==
    /\ Alive
    /\ pc[t] = "once_take"
    /\ HookWriteLockFree
    /\ loc' = [loc EXCEPT ![t].next = hook]
    /\ hook' = <<"default_hook">>
    /\ installs' = [installs EXCEPT !.take = @ + 1]
    /\ pc' = [pc EXCEPT ![t] = "once_set"]
    /\ UNCHANGED <<platform, once, sigsegv, hubClient, scope, fs, panics,
                   sink, crumbs, bridgeIn, flushes, runEvents, inits, mainPc,
                   signals, stderr>>

\* panic::set_hook(Box::new(move |info| { panic_handler(info); next(info); })).
SetHook(t) ==
    /\ Alive
    /\ pc[t] = "once_set"
    /\ HookWriteLockFree
    /\ hook' = ChainedHook(loc[t].next)
    /\ installs' = [installs EXCEPT !.set = @ + 1]
    /\ pc' = [pc EXCEPT ![t] = "once_end"]
    /\ UNCHANGED loc
    /\ UNCHANGED <<platform, once, sigsegv, hubClient, scope, fs, panics,
                   sink, crumbs, bridgeIn, flushes, runEvents, inits, mainPc,
                   signals, stderr>>

\* What libc::signal can return: the previous disposition, or SIG_ERR.
SignalReturns == {"SIG_DFL", "SIG_ERR"}

\* #[cfg(unix)] libc::signal(SIGSEGV, sigsegv_handler), whose return value ret is
\* dropped; the closure returns and the Once completes.
OnceEndRet(t, ret) ==
    /\ Alive
    /\ pc[t] = "once_end"
    /\ IF IsUnix(platform)
       THEN /\ sigsegv' = IF ret = "SIG_ERR" THEN sigsegv ELSE "sigsegv_handler"
            /\ installs' = [installs EXCEPT
                                !.signal = @ + 1, !.done = @ + 1,
                                !.sigerr = IF ret = "SIG_ERR" THEN @ + 1 ELSE @]
       ELSE /\ installs' = [installs EXCEPT !.done = @ + 1]
            /\ UNCHANGED sigsegv
    /\ once' = "Complete"
    /\ SetupReturn(t)
    /\ UNCHANGED <<platform, hook, hubClient, scope, fs, panics, sink, crumbs,
                   bridgeIn, flushes, runEvents, inits, mainPc,
                   signals, stderr>>

\* The registration of the handler for SIGSEGV, a valid signal that can be caught,
\* succeeds.
OnceEnd(t) == OnceEndRet(t, "SIG_DFL")

\* ------------------------------------------------------------- panics

\* origin: "panic" for a panic of the host's code, "sigsegv" for the panic raised by
\* sigsegv_handler.  client: what panic_handler met in the hub.  nested:
\* the faults raised on the thread while this panic was being handled.
NewPanicFrom(payload, origin) ==
    [payload |-> payload, installed |-> (once = "Complete"), origin |-> origin,
     steps |-> <<>>, prev |-> <<>>, capture |-> "none", dump |-> <<>>,
     client |-> <<>>, integ |-> <<>>, called |-> <<>>, builder |-> FALSE,
     msg |-> <<>>, nested |-> <<>>, done |-> FALSE]

NewPanic(payload) == NewPanicFrom(payload, "panic")

\* The attachments a scope would add to an event captured now on thread t.
TopScope(t) == Head(scope[t])

Step(id, names) == [panics EXCEPT ![id].steps = @ \o names]

\* Where a thread running the hook goes next: a chained layer calls panic_handler,
\* any other hook is called as it is.
HookPc(rem) ==
    IF rem # <<>> /\ Head(rem) = "chained" THEN "ph_with_integration" ELSE "hook"

HookRem(rem) == IF rem # <<>> /\ Head(rem) = "chained" THEN Tail(rem) ELSE rem

\* A thread panics: the runtime takes the hook's read lock and calls the hook.
Panic(t, payload) ==
    /\ Alive
    /\ pc[t] = "idle"
    /\ Len(panics) < MaxPanics
    /\ panics' = Append(panics, NewPanic(payload))
    /\ loc' = [loc EXCEPT ![t].info = Len(panics) + 1, ![t].hookRem = HookRem(hook)]
    /\ pc' = [pc EXCEPT ![t] = HookPc(hook)]
    /\ UNCHANGED <<platform, once, installs, hook, sigsegv, hubClient, scope,
                   fs, sink, crumbs, bridgeIn, flushes, runEvents, inits, mainPc,
                   signals, stderr>>

\* A hook that is not this crate's is called: next(info) of the chained hook, or the
\* hook found at the panic.  When it was the last, the hook has returned and the
\* panic unwinds the thread's work.
HookPrev(t) ==
    /\ Alive
    /\ pc[t] = "hook"
    /\ loc[t].hookRem # <<>>
    /\ LET id == loc[t].info
           rem == Tail(loc[t].hookRem)
       IN  /\ panics' = [panics EXCEPT
                   ![id].prev = Append(@, [hook |-> Head(loc[t].hookRem), info |-> id]),
                   ![id].steps = Append(@, "prev"),
                   ![id].done = (rem = <<>>)]
           /\ IF rem = <<>> /\ panics[id].origin = "sigsegv"
              THEN /\ loc' = [loc EXCEPT ![t].hookRem = <<>>]
                   /\ pc' = [pc EXCEPT ![t] = "unwind_extern_c"]
              ELSE IF rem = <<>>
              THEN /\ loc' = [loc EXCEPT ![t] = LocInit]
                   /\ pc' = [pc EXCEPT ![t] = "idle"]
              ELSE /\ loc' = [loc EXCEPT ![t].hookRem = HookRem(rem)]
                   /\ pc' = [pc EXCEPT ![t] = HookPc(rem)]
    /\ UNCHANGED <<platform, once, installs, hook, sigsegv, hubClient, scope,
                   fs, sink, crumbs, bridgeIn, flushes, runEvents, inits, mainPc,
                   signals, stderr>>

\* panic_handler: sentry::with_integration finds the integration (or calls nothing),
\* then hub.with_scope pushes a scope.  A variant in which with_scope runs its
\* callback before the closure that configures the scope.
PhWithIntegration_callback_first(t) ==
    /\ Alive
    /\ pc[t] = "ph_with_integration"
    /\ LET found == FindIntegration(hubClient)
       IN  IF found = <<>>
           THEN /\ panics' = [Step(loc[t].info, <<"handler", "handler_ret">>) EXCEPT
                                  ![loc[t].info].client = <<ClientSeen(hubClient)>>]
                /\ pc' = [pc EXCEPT ![t] = HookPc(loc[t].hookRem)]
                /\ loc' = [loc EXCEPT ![t].hookRem = HookRem(@)]
                /\ UNCHANGED scope
           ELSE /\ panics' = [Step(loc[t].info, <<"handler">>) EXCEPT
                                  ![loc[t].info].integ = found,
                                  ![loc[t].info].client = <<ClientSeen(hubClient)>>]
                /\ loc' = [loc EXCEPT ![t].integ = found]
                /\ scope' = [scope EXCEPT ![t] = <<Head(@)>> \o @]
                /\ pc' = [pc EXCEPT ![t] = "ph_callback"]
    /\ UNCHANGED <<platform, once, installs, hook, sigsegv, hubClient, fs,
                   sink, crumbs, bridgeIn, flushes, runEvents, inits, mainPc,
                   signals, stderr>>

PhWithIntegration(t) ==
    /\ Alive
    /\ pc[t] = "ph_with_integration"
    /\ LET found == FindIntegration(hubClient)
       IN  IF found = <<>>
           THEN /\ panics' = [Step(loc[t].info, <<"handler", "handler_ret">>) EXCEPT
                                  ![loc[t].info].client = <<ClientSeen(hubClient)>>]
                /\ pc' = [pc EXCEPT ![t] = HookPc(loc[t].hookRem)]
                /\ loc' = [loc EXCEPT ![t].hookRem = HookRem(@)]
                /\ UNCHANGED scope
           ELSE /\ panics' = [Step(loc[t].info, <<"handler">>) EXCEPT
                                  ![loc[t].info].integ = found,
                                  ![loc[t].info].client = <<ClientSeen(hubClient)>>]
                /\ loc' = [loc EXCEPT ![t].integ = found]
                /\ scope' = [scope EXCEPT ![t] = <<Head(@)>> \o @]
                /\ pc' = [pc EXCEPT ![t] = "wm_create"]
    /\ UNCHANGED <<platform, once, installs, hook, sigsegv, hubClient, fs,
                   sink, crumbs, bridgeIn, flushes, runEvents, inits, mainPc,
                   signals, stderr>>

\* write_minidump returned Err: the scope closure returns without an attachment.
\* A variant in which the early return leaves the whole handler.
CaptureErr_leave(t) ==
    /\ panics' = [Step(loc[t].info, <<"capture_err">>) EXCEPT
                      ![loc[t].info].capture = "err"]
    /\ pc' = [pc EXCEPT ![t] = "ph_flush"]
    /\ scope' = [scope EXCEPT ![t] = Tail(@)]

CaptureErr(t) ==
    /\ panics' = [Step(loc[t].info, <<"capture_err">>) EXCEPT
                      ![loc[t].info].capture = "err"]
    /\ pc' = [pc EXCEPT ![t] = "ph_callback"]
    /\ UNCHANGED scope

\* write_minidump returned Ok((dump_fn, buffer)): scope.add_attachment.
CaptureOk(t, buffer) ==
    /\ panics' = [Step(loc[t].info, <<"capture_ok", "attach">>) EXCEPT
                      ![loc[t].info].capture = "ok",
                      ![loc[t].info].dump = DumpBytes(loc[t].info)]
    /\ scope' = [scope EXCEPT ![t] =
                    <<Append(Head(@), MinidumpAttachment(buffer, get_dump_fn))>>
                    \o Tail(@)]
    /\ pc' = [pc EXCEPT ![t] = "ph_callback"]

\* write_minidump: std::fs::File::create(&dump_fn)?
WmCreate(t, ok) ==
    /\ Alive
    /\ pc[t] = "wm_create"
    /\ IF ok
       THEN /\ fs' = [exists |-> TRUE, data |-> <<>>]
            /\ loc' = [loc EXCEPT ![t].off = 0]
            /\ pc' = [pc EXCEPT ![t] = "wm_dump"]
            /\ UNCHANGED <<panics, scope>>
       ELSE /\ CaptureErr(t)
            /\ UNCHANGED <<fs, loc>>
    /\ UNCHANGED <<platform, once, installs, hook, sigsegv, hubClient, sink,
                   crumbs, bridgeIn, flushes, runEvents, inits, mainPc,
                   signals, stderr>>

\* write_minidump: writer.dump(&mut minidump_file)? (linux, macos), which returns the
\* bytes it wrote; MinidumpWriter::dump_local_context(.., &mut minidump_file)? (windows).
WmDump(t, ok) ==
    /\ Alive
    /\ pc[t] = "wm_dump"
    /\ IF ok
       THEN /\ fs' = [fs EXCEPT !.data = WriteAt(@, loc[t].off, DumpBytes(loc[t].info))]
            /\ loc' = [loc EXCEPT ![t].off = IF platform = "windows" THEN @ + DumpSize ELSE 0]
            /\ IF platform = "windows"
               THEN /\ pc' = [pc EXCEPT ![t] = "wm_read"]
                    /\ panics' = [panics EXCEPT
                                     ![loc[t].info].dump = DumpBytes(loc[t].info)]
                    /\ UNCHANGED scope
               ELSE CaptureOk(t, DumpBytes(loc[t].info))
       ELSE /\ CaptureErr(t)
            /\ UNCHANGED <<fs, loc>>
    /\ UNCHANGED <<platform, once, installs, hook, sigsegv, hubClient, sink,
                   crumbs, bridgeIn, flushes, runEvents, inits, mainPc,
                   signals, stderr>>

\* write_minidump (windows): seek(SeekFrom::Start(0))?; read_to_end(&mut buf)?
WmRead(t, ok) ==
    /\ Alive
    /\ pc[t] = "wm_read"
    /\ IF ok
       THEN CaptureOk(t, fs.data)
       ELSE CaptureErr(t)
    /\ loc' = [loc EXCEPT ![t].off = 0]
    /\ UNCHANGED <<platform, once, installs, hook, sigsegv, hubClient, fs, sink,
                   crumbs, bridgeIn, flushes, runEvents, inits, mainPc,
                   signals, stderr>>

\* What the with_scope callback hands to hub.capture_event, given the event that
\* event_from_panic_info returned: that event.
panic_handler_event_native(event) == [event EXCEPT !.platform = "native"]

panic_handler_event(event) == event

\* The with_scope callback: hub.capture_event(integration.event_from_panic_info(info));
\* the pushed scope is then popped.  A variant that configures the hub's current
\* scope instead of a pushed one: what it took from the stack is put back.
PhCallback_configure_scope(t) ==
    /\ Alive
    /\ pc[t] = "ph_callback"
    /\ LET id == loc[t].info
           r == event_from_panic_info(loc[t].integ[1], panics[id].payload)
       IN  /\ sink' = Append(sink, [event |-> panic_handler_event(r.event),
                                    attachments |-> TopScope(t),
                                    panic |-> id, bridge |-> 0])
           /\ panics' = [Step(id, <<"build", "dispatch">>) EXCEPT
                             ![id].called = r.called, ![id].builder = r.builder,
                             ![id].msg = r.msg]
    /\ scope' = [scope EXCEPT ![t] = <<Head(@)>>]
    /\ pc' = [pc EXCEPT ![t] = "ph_flush"]
    /\ UNCHANGED <<platform, once, installs, hook, sigsegv, hubClient, fs, loc,
                   crumbs, bridgeIn, flushes, runEvents, inits, mainPc,
                   signals, stderr>>

PhCallback(t) ==
    /\ Alive
    /\ pc[t] = "ph_callback"
    /\ LET id == loc[t].info
           r == event_from_panic_info(loc[t].integ[1], panics[id].payload)
       IN  /\ sink' = Append(sink, [event |-> panic_handler_event(r.event),
                                    attachments |-> TopScope(t),
                                    panic |-> id, bridge |-> 0])
           /\ panics' = [Step(id, <<"build", "dispatch">>) EXCEPT
                             ![id].called = r.called, ![id].builder = r.builder,
                             ![id].msg = r.msg]
    /\ scope' = [scope EXCEPT ![t] = Tail(@)]
    /\ pc' = [pc EXCEPT ![t] = "ph_flush"]
    /\ UNCHANGED <<platform, once, installs, hook, sigsegv, hubClient, fs, loc,
                   crumbs, bridgeIn, flushes, runEvents, inits, mainPc,
                   signals, stderr>>

\* if let Some(client) = hub.client() { client.flush(None); }; panic_handler returns.
\* A variant that asks for the flush again instead of returning.
PhFlush_retry(t) ==
    /\ Alive
    /\ pc[t] = "ph_flush"
    /\ flushes' = Append(flushes, [site |-> "panic", timeout |-> <<>>])
    /\ panics' = Step(loc[t].info, <<"flush">>)
    /\ UNCHANGED <<platform, once, installs, hook, sigsegv, hubClient, scope,
                   fs, pc, loc, sink, crumbs, bridgeIn, runEvents, inits, mainPc,
                   signals, stderr>>

PhFlush(t) ==
    /\ Alive
    /\ pc[t] = "ph_flush"
    /\ IF hubClient # <<>>
       THEN /\ flushes' = Append(flushes, [site |-> "panic", timeout |-> <<>>])
            /\ panics' = Step(loc[t].info, <<"flush", "handler_ret">>)
       ELSE /\ panics' = Step(loc[t].info, <<"handler_ret">>)
            /\ UNCHANGED flushes
    /\ loc' = [loc EXCEPT ![t].integ = <<>>, ![t].off = 0, ![t].hookRem = HookRem(@)]
    /\ pc' = [pc EXCEPT ![t] = HookPc(loc[t].hookRem)]
    /\ UNCHANGED <<platform, once, installs, hook, sigsegv, hubClient, scope,
                   fs, sink, crumbs, bridgeIn, runEvents, inits, mainPc,
                   signals, stderr>>

\* ------------------------------------------------------------- faults

\* The payload of panic!("Segmentation fault!"): a &'static str.
SegvPayload == [shape |-> "str", text |-> "Segmentation fault!"]

\* The line eprintln!("received signal {}", signum) writes.
SegvLine == "received signal SIGSEGV"

\* What the runtime does with a panic raised on a thread: a thread that is running
\* the panic hook is aborted without the hook being called again; any other thread
\* gets the hook called.
PanicRuntime(inHook) == IF inHook THEN "abort" ELSE "hook"

SigStep(k, name) == [signals EXCEPT ![k].steps = Append(@, name)]

\* An invalid memory access on thread t, in the host's code or inside
\* panic_handler: SIGSEGV.  With sigsegv_handler registered the kernel blocks the
\* signal for the thread and calls it; with the default disposition the process is
\* killed.
Segv(t) ==
    /\ Alive
    /\ pc[t] \in {"idle"} \cup HandlerPcs
    /\ Len(signals) < MaxSignals
    /\ pc[t] = "idle" => Len(panics) < MaxPanics
    /\ LET during == IF pc[t] = "idle" THEN 0 ELSE loc[t].info
           handled == sigsegv = "sigsegv_handler" /\ ~loc[t].blocked
       IN  /\ signals' = Append(signals,
                   [thread |-> t, during |-> during, handled |-> handled,
                    steps |-> <<>>, panic |-> 0])
           /\ panics' = IF during = 0 THEN panics
                         ELSE [panics EXCEPT ![during].nested = Append(@, "sigsegv")]
           /\ IF handled
              THEN /\ pc' = [pc EXCEPT ![t] = "sig_eprintln"]
                   /\ loc' = [loc EXCEPT ![t].sig = Len(signals) + 1,
                                          ![t].blocked = TRUE]
                   /\ UNCHANGED mainPc
              ELSE /\ mainPc' = "killed"
                   /\ UNCHANGED <<pc, loc>>
    /\ UNCHANGED <<platform, once, installs, hook, sigsegv, hubClient, scope, fs,
                   sink, crumbs, bridgeIn, flushes, runEvents, inits, stderr>>

\* sigsegv_handler: eprintln!("received signal {}", signum).  A variant that goes on
\* to the panic without unblocking the signal.
SigEprintln_no_unblock(t) ==
    /\ Alive
    /\ pc[t] = "sig_eprintln"
    /\ stderr' = Append(stderr, SegvLine)
    /\ signals' = SigStep(loc[t].sig, "eprintln")
    /\ pc' = [pc EXCEPT ![t] = "sig_panic"]
    /\ UNCHANGED <<platform, once, installs, hook, sigsegv, hubClient, scope, fs,
                   loc, panics, sink, crumbs, bridgeIn, flushes, runEvents, inits,
                   mainPc>>

SigEprintln(t) ==
    /\ Alive
    /\ pc[t] = "sig_eprintln"
    /\ stderr' = Append(stderr, SegvLine)
    /\ signals' = SigStep(loc[t].sig, "eprintln")
    /\ pc' = [pc EXCEPT ![t] = "sig_unblock"]
    /\ UNCHANGED <<platform, once, installs, hook, sigsegv, hubClient, scope, fs,
                   loc, panics, sink, crumbs, bridgeIn, flushes, runEvents, inits,
                   mainPc>>

\* sigsegv_handler: sigemptyset, sigaddset(signum), sigprocmask(SIG_UNBLOCK).
SigUnblock(t) ==
    /\ Alive
    /\ pc[t] = "sig_unblock"
    /\ loc' = [loc EXCEPT ![t].blocked = FALSE]
    /\ signals' = SigStep(loc[t].sig, "unblock")
    /\ pc' = [pc EXCEPT ![t] = "sig_panic"]
    /\ UNCHANGED <<platform, once, installs, hook, sigsegv, hubClient, scope, fs,
                   panics, sink, crumbs, bridgeIn, flushes, runEvents, inits,
                   mainPc, stderr>>

\* sigsegv_handler: panic!("Segmentation fault!").
SigPanic(t) ==
    /\ Alive
    /\ pc[t] = "sig_panic"
    /\ LET k == loc[t].sig
       IN  IF PanicRuntime(signals[k].during # 0) = "abort"
           THEN /\ signals' = SigStep(k, "panic")
                /\ mainPc' = "aborted"
                /\ UNCHANGED <<pc, loc, panics>>
           ELSE /\ signals' = [SigStep(k, "panic") EXCEPT ![k].panic = Len(panics) + 1]
                /\ panics' = Append(panics, NewPanicFrom(SegvPayload, "sigsegv"))
                /\ loc' = [loc EXCEPT ![t].info = Len(panics) + 1,
                                       ![t].hookRem = HookRem(hook)]
                /\ pc' = [pc EXCEPT ![t] = HookPc(hook)]
                /\ UNCHANGED mainPc
    /\ UNCHANGED <<platform, once, installs, hook, sigsegv, hubClient, scope, fs,
                   sink, crumbs, bridgeIn, flushes, runEvents, inits, stderr>>

\* A panic raised inside panic_handler: by the dump capture, by an extractor or by
\* the sink.  A variant in which the hook is entered again for it.
NestedPanic_rerun(t) ==
    /\ Alive
    /\ pc[t] \in HandlerPcs \ {"ph_with_integration"}
    /\ panics' = Append([panics EXCEPT ![loc[t].info].nested = Append(@, "panic")],
                        NewPanicFrom([shape |-> "str", text |-> "boom"], "panic"))
    /\ loc' = [loc EXCEPT ![t].info = Len(panics) + 1, ![t].hookRem = HookRem(hook)]
    /\ pc' = [pc EXCEPT ![t] = HookPc(hook)]
    /\ UNCHANGED <<platform, once, installs, hook, sigsegv, hubClient, scope, fs,
                   sink, crumbs, bridgeIn, flushes, runEvents, inits, mainPc,
                   signals, stderr>>

NestedPanic(t) ==
    /\ Alive
    /\ pc[t] \in HandlerPcs \ {"ph_with_integration"}
    /\ PanicRuntime(InHook(t)) = "abort"
    /\ panics' = [panics EXCEPT ![loc[t].info].nested = Append(@, "panic")]
    /\ mainPc' = "aborted"
    /\ UNCHANGED <<platform, once, installs, hook, sigsegv, hubClient, scope, fs,
                   pc, loc, sink, crumbs, bridgeIn, flushes, runEvents, inits,
                   signals, stderr>>

\* The panic of sigsegv_handler, its hook having returned, unwinds out of an
\* extern "C" function: the process aborts, or the unwinding goes on through the
\* signal frame and ends the thread's work.
UnwindOutcomes == {"abort", "unwind"}

UnwindExternC(t, outcome) ==
    /\ Alive
    /\ pc[t] = "unwind_extern_c"
    /\ IF outcome = "abort"
       THEN /\ mainPc' = "aborted"
            /\ UNCHANGED <<pc, loc>>
       ELSE /\ pc' = [pc EXCEPT ![t] = "idle"]
            /\ loc' = [loc EXCEPT ![t] = LocInit]
            /\ UNCHANGED mainPc
    /\ UNCHANGED <<platform, once, installs, hook, sigsegv, hubClient, scope, fs,
                   panics, sink, crumbs, bridgeIn, flushes, runEvents, inits,
                   signals, stderr>>

\* ------------------------------------------------------------- commands (lib.rs)

\* The bridged command event(app, event): sets the platform, capture_event(event).
BridgeEvent(t, ev) ==
    /\ Alive
    /\ pc[t] = "idle"
    /\ Len(bridgeIn) < MaxBridge
    /\ bridgeIn' = Append(bridgeIn, ev)
    /\ sink' = Append(sink, [event |-> event_command(ev), attachments |-> TopScope(t),
                             panic |-> 0, bridge |-> Len(bridgeIn) + 1])
    /\ UNCHANGED <<platform, once, installs, hook, sigsegv, hubClient, scope,
                   fs, pc, loc, panics, crumbs, flushes, runEvents, inits, mainPc,
                   signals, stderr>>

Breadcrumbs == {"crumb from js"}

\* The bridged command breadcrumb(app, breadcrumb): add_breadcrumb(breadcrumb).
BridgeBreadcrumb(t, b) ==
    /\ Alive
    /\ pc[t] = "idle"
    /\ Len(crumbs) < MaxCrumbs
    /\ crumbs' = Append(crumbs, b)
    /\ UNCHANGED <<platform, once, installs, hook, sigsegv, hubClient, scope,
                   fs, pc, loc, panics, sink, bridgeIn, flushes, runEvents, inits, mainPc,
                   signals, stderr>>

\* ------------------------------------------------------------- run events (lib.rs)

\* The plugin's on_event, registered by init: on RunEvent::Exit it flushes the managed
\* client with a 5 s bound.  Exit is the host's last run event.
OnEvent(e) ==
    /\ mainPc = "running"
    /\ hubClient # <<>>
    /\ e # "Exit" => Len(runEvents) < MaxRunEvents
    /\ runEvents' = Append(runEvents, e)
    /\ flushes' = flushes \o on_event_flushes(e)
    /\ mainPc' = IF e = "Exit" THEN "exit_flush" ELSE mainPc
    /\ UNCHANGED <<platform, once, installs, hook, sigsegv, hubClient, scope,
                   fs, pc, loc, panics, sink, crumbs, bridgeIn, inits,
                   signals, stderr>>

\* The flush requested on Exit returns (the sink returns within the bound it was
\* given) and the process exits.
ExitFlushReturn ==
    /\ mainPc = "exit_flush"
    /\ mainPc' = "exited"
    /\ UNCHANGED <<platform, once, installs, hook, sigsegv, hubClient, scope,
                   fs, pc, loc, panics, sink, crumbs, bridgeIn, flushes, runEvents, inits,
                   signals, stderr>>

\* ------------------------------------------------------------- specification

\* The crash path: any thread calls init, any thread panics.
Next ==
    \/ \E t \in Threads, o \in Options : CallInit(t, o)
    \/ \E t \in Threads : InitBind(t)
    \/ \E t \in Threads : SetupEnter(t)
    \/ \E t \in Threads : TakeHook(t)
    \/ \E t \in Threads : SetHook(t)
    \/ \E t \in Threads : OnceEnd(t)
    \/ \E t \in Threads, p \in Payloads : Panic(t, p)
    \/ \E t \in Threads : HookPrev(t)
    \/ \E t \in Threads : PhWithIntegration(t)
    \/ \E t \in Threads, ok \in BOOLEAN : WmCreate(t, ok)
    \/ \E t \in Threads, ok \in BOOLEAN : WmDump(t, ok)
    \/ \E t \in Threads, ok \in BOOLEAN : WmRead(t, ok)
    \/ \E t \in Threads : PhCallback(t)
    \/ \E t \in Threads : PhFlush(t)

Spec == Init /\ [][Next]_vars

\* The plugin in its host: the main thread (1) calls init and the event loop
\* delivers run events; a worker thread (NumThreads) panics; any thread invokes the
\* bridged commands.
Main == 1
Worker == NumThreads

FacadeInits == 1
FacadePanics == 1

FacadeNext ==
    \/ \E o \in Options : inits < FacadeInits /\ CallInit(Main, o)
    \/ InitBind(Main)
    \/ SetupEnter(Main)
    \/ TakeHook(Main)
    \/ SetHook(Main)
    \/ OnceEnd(Main)
    \/ \E p \in Payloads : Len(panics) < FacadePanics /\ Panic(Worker, p)
    \/ HookPrev(Worker)
    \/ PhWithIntegration(Worker)
    \/ \E ok \in BOOLEAN : WmCreate(Worker, ok)
    \/ \E ok \in BOOLEAN : WmDump(Worker, ok)
    \/ \E ok \in BOOLEAN : WmRead(Worker, ok)
    \/ PhCallback(Worker)
    \/ PhFlush(Worker)
    \/ \E t \in Threads, ev \in BridgeEvents : BridgeEvent(t, ev)
    \/ \E t \in Threads, b \in Breadcrumbs : BridgeBreadcrumb(t, b)
    \/ \E e \in RunEventKinds : OnEvent(e)
    \/ ExitFlushReturn

FacadeSpec == Init /\ [][FacadeNext]_vars

\* Faults: the main thread calls init once, the registration of the signal handler
\* may fail; the worker thread panics, faults on an invalid memory access, and
\* faults again while panic_handler runs.
FaultNext ==
    \/ \E o \in Options : inits < FacadeInits /\ CallInit(Main, o)
    \/ InitBind(Main)
    \/ SetupEnter(Main)
    \/ TakeHook(Main)
    \/ SetHook(Main)
    \/ \E ret \in SignalReturns : OnceEndRet(Main, ret)
    \/ \E p \in Payloads : Panic(Worker, p)
    \/ HookPrev(Worker)
    \/ PhWithIntegration(Worker)
    \/ \E ok \in BOOLEAN : WmCreate(Worker, ok)
    \/ \E ok \in BOOLEAN : WmDump(Worker, ok)
    \/ \E ok \in BOOLEAN : WmRead(Worker, ok)
    \/ PhCallback(Worker)
    \/ PhFlush(Worker)
    \/ Segv(Worker)
    \/ SigEprintln(Worker)
    \/ SigUnblock(Worker)
    \/ SigPanic(Worker)
    \/ NestedPanic(Worker)
    \/ \E o \in UnwindOutcomes : UnwindExternC(Worker, o)

FaultSpec == Init /\ [][FaultNext]_vars

\* Scopes: the main thread calls init once; the worker thread panics, more than
\* once, and invokes the bridged event command between its panics.
ScopeNext ==
    \/ \E o \in Options : inits < FacadeInits /\ CallInit(Main, o)
    \/ InitBind(Main)
    \/ SetupEnter(Main)
    \/ TakeHook(Main)
    \/ SetHook(Main)
    \/ OnceEnd(Main)
    \/ \E p \in Payloads : Panic(Worker, p)
    \/ HookPrev(Worker)
    \/ PhWithIntegration(Worker)
    \/ \E ok \in BOOLEAN : WmCreate(Worker, ok)
    \/ \E ok \in BOOLEAN : WmDump(Worker, ok)
    \/ \E ok \in BOOLEAN : WmRead(Worker, ok)
    \/ PhCallback(Worker)
    \/ PhFlush(Worker)
    \/ \E ev \in BridgeEvents : BridgeEvent(Worker, ev)

ScopeSpec == Init /\ [][ScopeNext]_vars

\* ------------------------------------------------------------- properties

Count(seq, x) == Cardinality({i \in DOMAIN seq : seq[i] = x})

Occurs(seq, x) == \E i \in DOMAIN seq : seq[i] = x

\* The envelopes the sink received for panic id.
EnvelopesOf(id) == {i \in DOMAIN sink : sink[i].panic = id}

\* The envelopes the sink received from call c of the bridged event command.
BridgedOf(c) == {i \in DOMAIN sink : sink[i].bridge = c}

PanicIntegrationsOf(client) ==
    {i \in DOMAIN client.integrations : client.integrations[i].name = "panic"}

\* C1: however many times setup is called, from one thread or several, the call_once
\* closure takes the hook, sets the chained hook and registers the SIGSEGV handler at
\* most once, and exactly once when INIT is complete; INIT never becomes Incomplete
\* again once the closure has started, and stays Complete once it has finished; no
\* panic runs panic_handler more than once, and a panic raised after installation
\* runs it exactly once.
C1_InstallOnce ==
    /\ installs.take <= 1 /\ installs.set <= 1
    /\ installs.signal <= 1 /\ installs.done <= 1
    /\ installs.take >= 1 => once # "Incomplete"
    /\ installs.done >= 1 => once = "Complete"
    /\ once = "Complete" =>
          /\ installs.take = 1 /\ installs.set = 1 /\ installs.done = 1
          /\ Count(hook, "chained") = 1
          /\ IsUnix(platform) => installs.signal = 1 /\ sigsegv = "sigsegv_handler"
    /\ \A id \in DOMAIN panics :
          /\ Count(panics[id].steps, "handler") <= 1
          /\ panics[id].installed /\ panics[id].done =>
                Count(panics[id].steps, "handler") = 1

\* Two inits have run, the bound client holds two PanicIntegrations (setup was called
\* for each), and a panic raised after installation has been handled.
C1_Witness ==
    /\ inits >= 2
    /\ hubClient # <<>>
    /\ Cardinality(PanicIntegrationsOf(hubClient[1])) >= 2
    /\ once = "Complete"
    /\ \E id \in DOMAIN panics :
          /\ panics[id].installed /\ panics[id].done
          /\ Count(panics[id].steps, "handler") = 1

\* C2: for a panic raised after installation, the hook registered before installation
\* is called only after panic_handler has returned, at most once, with the info of
\* that panic, and it has been called exactly once when the hook returns.
C2_PrevHookAfterHandler ==
    \A id \in DOMAIN panics :
        panics[id].installed =>
            LET st == panics[id].steps
            IN  /\ \A i \in DOMAIN st :
                      st[i] = "prev" => \E j \in 1..(i - 1) : st[j] = "handler_ret"
                /\ Count(st, "prev") <= 1
                /\ \A i \in DOMAIN panics[id].prev :
                      panics[id].prev[i] = [hook |-> PrevHook, info |-> id]
                /\ panics[id].done =>
                      /\ Count(st, "prev") = 1
                      /\ Len(panics[id].prev) = 1
                      /\ st[1] = "handler"
                      /\ st[Len(st)] = "prev"

\* A panic raised after installation whose event was dispatched and whose previous
\* hook has then run.
C2_Witness ==
    \E id \in DOMAIN panics :
        /\ panics[id].installed /\ panics[id].done
        /\ Occurs(panics[id].steps, "dispatch")
        /\ panics[id].prev = <<[hook |-> PrevHook, info |-> id]>>

\* C3: when write_minidump fails, the event is still built and handed to the sink:
\* never twice, exactly once when panic_handler has returned, with no attachment.
C3_CaptureFailureStillDispatches ==
    \A id \in DOMAIN panics :
        panics[id].capture = "err" =>
            /\ Cardinality(EnvelopesOf(id)) <= 1
            /\ \A i \in EnvelopesOf(id) : sink[i].attachments = <<>>
            /\ Occurs(panics[id].steps, "handler_ret") =>
                  /\ Cardinality(EnvelopesOf(id)) = 1
                  /\ Count(panics[id].steps, "build") = 1
                  /\ Count(panics[id].steps, "dispatch") = 1

\* A capture that failed at the read-back (the dump had been written) and one that
\* failed before any byte was written, both dispatched without attachment.
C3_Witness ==
    /\ \E id \in DOMAIN panics :
          /\ panics[id].capture = "err" /\ panics[id].dump # <<>>
          /\ \E i \in EnvelopesOf(id) : sink[i].attachments = <<>>
    /\ \E id \in DOMAIN panics :
          /\ panics[id].capture = "err" /\ panics[id].dump = <<>>
          /\ \E i \in EnvelopesOf(id) : sink[i].attachments = <<>>

C4_RaceReached ==
    \E i, j \in DOMAIN sink :
        /\ i # j /\ sink[i].panic > 0 /\ sink[j].panic > 0
        /\ panics[sink[i].panic].capture = "ok"
        /\ panics[sink[j].panic].capture = "ok"

\* The indices of the extractors of exs that return an event for the payload.
Matching(exs, payload) == {i \in DOMAIN exs : payload.shape \in exs[i].accepts}

\* C5: the extractors run in registration order (E1 was registered before E2); when
\* extractor i is the first to return an event, the event handed on is exactly that
\* event, the extractors called are those up to i and no other, and the default
\* builder has not run; the default builder runs only when every extractor has been
\* called and none returned an event.
C5_ShortCircuit ==
    \A id \in DOMAIN panics :
        Occurs(panics[id].steps, "build") =>
            LET exs == panics[id].integ[1].extractors
                m == Matching(exs, panics[id].payload)
            IN  /\ exs \in {<<>>, <<E1, E2>>}
                /\ m # {} =>
                      LET first == CHOOSE i \in m : \A j \in m : i <= j
                      IN  /\ panics[id].called = [k \in 1..first |-> exs[k].id]
                          /\ ~panics[id].builder
                          /\ \A e \in EnvelopesOf(id) :
                                sink[e].event = CustomEvent(exs[first].id)
                /\ m = {} =>
                      /\ panics[id].called = [k \in 1..Len(exs) |-> exs[k].id]
                      /\ panics[id].builder
                /\ panics[id].builder => m = {}

\* A String payload, which both extractors accept: only the first was called.  And an
\* "other" payload, which only the second accepts: both were called, in order.
C5_Witness ==
    /\ \E id \in DOMAIN panics :
          /\ panics[id].payload.shape = "String"
          /\ panics[id].called = <<1>>
          /\ \E e \in EnvelopesOf(id) : sink[e].event.message = "custom 1"
    /\ \E id \in DOMAIN panics :
          /\ panics[id].payload.shape = "other"
          /\ panics[id].called = <<1, 2>>
          /\ \E e \in EnvelopesOf(id) : sink[e].event.message = "custom 2"

\* C6: whenever the default builder asks for the message of a payload it gets one:
\* the text itself for a &'static str and for a String, "Box<Any>" for anything else.
C6_MessageTotal ==
    \A id \in DOMAIN panics :
        panics[id].builder =>
            /\ Len(panics[id].msg) = 1
            /\ panics[id].payload.shape \in {"str", "String"} =>
                  panics[id].msg[1] = panics[id].payload.text
            /\ panics[id].payload.shape \notin {"str", "String"} =>
                  panics[id].msg[1] = "Box<Any>"

\* The message was extracted for a String payload and for a payload of another shape.
C6_Witness ==
    /\ \E id \in DOMAIN panics :
          panics[id].builder /\ panics[id].payload.shape = "String"
                             /\ panics[id].msg = <<"oops">>
    /\ \E id \in DOMAIN panics :
          panics[id].builder /\ panics[id].payload.shape = "other"
                             /\ panics[id].msg = <<"Box<Any>">>

\* C7: an event made by the default builder has exactly one exception, of type
\* "panic", with mechanism type "panic" and handled = false, whose value is the
\* extracted message; its level is fatal.
C7_DefaultEventShape ==
    \A id \in DOMAIN panics :
        panics[id].builder =>
            \A e \in EnvelopesOf(id) :
                LET ev == sink[e].event
                IN  /\ Len(ev.exception) = 1
                    /\ ev.exception[1].ty = "panic"
                    /\ Len(ev.exception[1].mechanism) = 1
                    /\ ev.exception[1].mechanism[1].ty = "panic"
                    /\ ev.exception[1].mechanism[1].handled = <<FALSE>>
                    /\ ev.exception[1].value = panics[id].msg
                    /\ Len(panics[id].msg) = 1
                    /\ ev.level = "fatal"

\* The scenario of the specification: payload "boom", built by default, dispatched.
C7_Witness ==
    \E id \in DOMAIN panics :
        /\ panics[id].builder
        /\ panics[id].payload = [shape |-> "str", text |-> "boom"]
        /\ \E e \in EnvelopesOf(id) :
              /\ sink[e].event.exception[1].value = <<"boom">>
              /\ sink[e].event.level = "fatal"

\* passed is caller's list with PanicIntegration::default() put in front when the
\* toggle is set, and caller's list itself when it is not.
InsertedAtFront(passed, caller) ==
    IF caller.default_integrations
    THEN /\ Len(passed) = Len(caller.integrations) + 1
         /\ passed[1] = [name |-> "panic", extractors |-> <<>>]
         /\ \A i \in DOMAIN caller.integrations : passed[i + 1] = caller.integrations[i]
    ELSE passed = caller.integrations

\* C10: the integration list init hands to the client is the caller's list with
\* PanicIntegration::default() at index 0 and the caller's integrations after it in
\* their order when default_integrations is set, and the caller's list itself when it
\* is not; this holds of every init under way and of the bound client.
C10_InsertAtFront ==
    /\ \A t \in Threads :
          pc[t] \in {"setup", "once_take", "once_set", "once_end", "init_bind"} =>
              InsertedAtFront(loc[t].options.integrations, loc[t].caller)
    /\ hubClient # <<>> =>
          InsertedAtFront(hubClient[1].integrations, hubClient[1].caller)

\* A client was bound from a caller's list of two with the toggle set, and another
\* init with the toggle off and the same list is about to bind.
C10_Witness ==
    /\ hubClient # <<>>
    /\ hubClient[1].caller.default_integrations
    /\ Len(hubClient[1].caller.integrations) = 2
    /\ Len(hubClient[1].integrations) = 3
    /\ \E t \in Threads :
          /\ pc[t] = "init_bind"
          /\ ~loc[t].caller.default_integrations
          /\ Len(loc[t].options.integrations) = 2

\* The flushes requested by on_event.
ExitFlushes == {i \in DOMAIN flushes : flushes[i].site = "exit"}

\* C8: each Exit run event makes the plugin request one flush, bounded by 5 s, and
\* no other run event makes it request any; the event loop leaves "running" only
\* through that flush, and exits when it has returned.
C8_ExitFlush ==
    /\ Cardinality(ExitFlushes) = Count(runEvents, "Exit")
    /\ Cardinality(ExitFlushes) <= 1
    /\ \A i \in ExitFlushes : flushes[i].timeout = <<5>>
    /\ mainPc = "running" <=> ~Occurs(runEvents, "Exit")
    /\ mainPc = "exit_flush" => ENABLED ExitFlushReturn

\* Another run event was delivered before Exit; the flush has returned.
C8_Witness ==
    /\ mainPc = "exited"
    /\ Len(runEvents) = 2
    /\ runEvents[1] = "ExitRequested"
    /\ runEvents[2] = "Exit"
    /\ Cardinality(ExitFlushes) = 1

\* C9: each call of the bridged event command hands one envelope to the sink, whose
\* event has platform "javascript" and is the caller's event in every other field.
C9_BridgedEvent ==
    \A c \in DOMAIN bridgeIn :
        /\ Cardinality(BridgedOf(c)) = 1
        /\ \A i \in BridgedOf(c) :
              /\ sink[i].event.platform = "javascript"
              /\ sink[i].event.exception = bridgeIn[c].exception
              /\ sink[i].event.level = bridgeIn[c].level
              /\ sink[i].event.message = bridgeIn[c].message
              /\ DOMAIN sink[i].event = DOMAIN bridgeIn[c]

\* The caller supplied platform "native"; the sink received "javascript".
C9_Witness ==
    \E c \in DOMAIN bridgeIn :
        /\ bridgeIn[c].platform = "native"
        /\ \E i \in BridgedOf(c) : sink[i].event.platform = "javascript"
                                   /\ sink[i].event.message = "from js"

\* The platform of an event nobody has set: that of Event's Default::default().
UnsetPlatform == "other"

\* C11 as stated: every event dispatched on the panic path reaches the sink with its
\* platform overwritten to the native calling surface.
C11_PlatformOverwritten ==
    \A i \in DOMAIN sink :
        sink[i].panic > 0 => sink[i].event.platform = "native"

\* C11, amended: panic_handler hands the builder's event to the sink as it is, the
\* platform included: an event made by the default builder still has the platform
\* of Default::default(), an extractor's event is the extractor's in every field;
\* the panic path never writes "native" or "javascript" into it.
C11_PlatformAsBuilt ==
    \A i \in DOMAIN sink :
        sink[i].panic > 0 =>
            LET p == panics[sink[i].panic]
            IN  /\ sink[i].event.platform = UnsetPlatform
                /\ p.builder =>
                      sink[i].event = [exception |-> sink[i].event.exception,
                                       level |-> "fatal", platform |-> "other",
                                       message |-> "none"]
                /\ ~p.builder =>
                      sink[i].event \in {CustomEvent(1), CustomEvent(2)}

\* One event made by the default builder and one made by an extractor have reached
\* the sink from the panic path.
C11_Witness ==
    /\ \E i \in DOMAIN sink :
          /\ sink[i].panic > 0 /\ panics[sink[i].panic].builder
          /\ sink[i].event.platform = "other" /\ sink[i].event.level = "fatal"
    /\ \E i \in DOMAIN sink :
          /\ sink[i].panic > 0 /\ ~panics[sink[i].panic].builder
          /\ sink[i].event.platform = "other" /\ sink[i].event.level = "warning"

\* C12 as stated: every occurrence whose capture succeeded keeps a dump file of its
\* own: whatever the core does later, a file with that occurrence's dump bytes is on
\* disk.  (Every capture of the process uses the one path get_dump_fn gives.)
C12_OwnDumpFileKept ==
    \A id \in DOMAIN panics :
        panics[id].capture = "ok" =>
            /\ fs.exists
            /\ fs.data = panics[id].dump

\* The line a logged installation failure would leave on standard error.
InstallFailureLogged == \E i \in DOMAIN stderr : stderr[i] # SegvLine

\* C13 as stated: when the registration of the SIGSEGV handler has failed, the
\* failure has been logged, and setup has returned normally with INIT complete.
C13_InstallFailureLogged ==
    installs.sigerr > 0 =>
        /\ InstallFailureLogged
        /\ once = "Complete"
        /\ mainPc = "running"

\* The position of the first occurrence of step x in st, 0 when there is none.
Pos(st, x) ==
    IF Occurs(st, x)
    THEN CHOOSE i \in DOMAIN st : st[i] = x /\ \A j \in 1..(i - 1) : st[j] # x
    ELSE 0

\* In st, step b occurs only after step a.
After(st, a, b) == Occurs(st, b) => (Pos(st, a) > 0 /\ Pos(st, a) < Pos(st, b))

HandlerSteps ==
    {"handler", "capture_ok", "capture_err", "attach", "build", "dispatch", "flush",
     "handler_ret"}

\* s is an initial part of q.
IsPrefix(s, q) == Len(s) <= Len(q) /\ \A i \in DOMAIN s : s[i] = q[i]

\* The steps of a panic whose capture succeeded, of one whose capture failed, of one
\* for which no integration was found, and of one raised before installation.
StepOrders ==
    { <<"handler", "capture_ok", "attach", "build", "dispatch", "flush",
        "handler_ret", "prev">>,
      <<"handler", "capture_err", "build", "dispatch", "flush", "handler_ret", "prev">>,
      <<"handler", "handler_ret", "prev">>,
      <<"prev">> }

\* C14: one run of panic_handler takes its steps in the order capture attempt,
\* attachment (after a successful capture, and only then), build, dispatch, flush,
\* each at most once: the event is not built before the capture attempt has
\* finished, one way or the other, and the flush is not requested before the event
\* has been dispatched; the attachment goes into the scope pushed for this event.
C14_HandlerOrder ==
    /\ \A id \in DOMAIN panics :
          /\ \E o \in StepOrders : IsPrefix(panics[id].steps, o)
          /\ Occurs(panics[id].steps, "build") => panics[id].capture \in {"ok", "err"}
          /\ Occurs(panics[id].steps, "attach") <=> panics[id].capture = "ok"
    /\ \A t \in Threads :
          pc[t] = "ph_callback" =>
              /\ Len(scope[t]) = 2
              /\ Len(scope[t][1]) = IF panics[loc[t].info].capture = "ok" THEN 1 ELSE 0
              /\ scope[t][2] = <<>>

\* One run with a successful capture and one with a failed capture, both complete.
C14_Witness ==
    /\ \E id \in DOMAIN panics :
          panics[id].steps = <<"handler", "capture_ok", "attach", "build", "dispatch",
                               "flush", "handler_ret", "prev">>
    /\ \E id \in DOMAIN panics :
          panics[id].steps = <<"handler", "capture_err", "build", "dispatch",
                               "flush", "handler_ret", "prev">>

\* The deliveries of SIGSEGV to sigsegv_handler from the host's code.
Deliveries == {k \in DOMAIN signals : signals[k].handled /\ signals[k].during = 0}

\* The event of the default builder for panic!("Segmentation fault!").
IsSegvEvent(ev) ==
    /\ ev.level = "fatal"
    /\ Len(ev.exception) = 1
    /\ ev.exception[1].value = <<"Segmentation fault!">>

\* sigsegv_handler's own steps, in order, and the previous hook after panic_handler.
SegvHandlerOrder(k) ==
    /\ IsPrefix(signals[k].steps, <<"eprintln", "unblock", "panic">>)
    /\ Count(stderr, SegvLine) >= Count(signals[k].steps, "eprintln")
    /\ signals[k].panic # 0 <=> Occurs(signals[k].steps, "panic")
    /\ signals[k].panic # 0 =>
          LET p == panics[signals[k].panic]
          IN  /\ p.payload = [shape |-> "str", text |-> "Segmentation fault!"]
              /\ Count(p.steps, "handler") <= 1
              /\ After(p.steps, "handler_ret", "prev")
              /\ p.done => /\ Count(p.steps, "handler") = 1
                            /\ p.prev = <<[hook |-> PrevHook, info |-> signals[k].panic]>>

PanicFlushes == {i \in DOMAIN flushes : flushes[i].site = "panic"}

HookCanStep(t) ==
    ENABLED (\/ HookPrev(t) \/ PhWithIntegration(t) \/ PhCallback(t) \/ PhFlush(t)
             \/ \E ok \in BOOLEAN : WmCreate(t, ok) \/ WmDump(t, ok) \/ WmRead(t, ok))

Terminated == mainPc \in {"aborted", "killed"}

\* The deliveries of SIGSEGV raised while panic id was being handled.
NestedSignals(id) == {k \in DOMAIN signals : signals[k].during = id}

C17_WitnessSegv ==
    /\ mainPc = "aborted"
    /\ \E id \in DOMAIN panics :
          /\ panics[id].nested = <<"sigsegv">>
          /\ \E k \in NestedSignals(id) :
                signals[k].steps = <<"eprintln", "unblock", "panic">>

\* C18: outside the with_scope of panic_handler a thread's scope holds no
\* attachment; no event carries more than one attachment; a bridged event and the
\* event of a panic whose capture failed carry none, and an attachment is the dump
\* of the very panic whose event carries it.
C18_AttachmentScoped ==
    /\ \A t \in Threads :
          pc[t] \notin {"wm_create", "wm_dump", "wm_read", "ph_callback"} =>
              scope[t] = << <<>> >>
    /\ \A i \in DOMAIN sink :
          /\ Len(sink[i].attachments) <= 1
          /\ sink[i].bridge > 0 => sink[i].attachments = <<>>
          /\ sink[i].panic > 0 /\ panics[sink[i].panic].capture # "ok" =>
                sink[i].attachments = <<>>
          /\ \A a \in DOMAIN sink[i].attachments :
                /\ sink[i].panic > 0
                /\ sink[i].attachments[a].buffer = DumpBytes(sink[i].panic)

\* After a panic whose event carried its dump, the same thread dispatched a bridged
\* event and then the event of a panic whose capture failed, both without attachment.
C18_Witness ==
    /\ Len(sink) = 3
    /\ sink[1].panic = 1 /\ Len(sink[1].attachments) = 1
    /\ sink[2].bridge = 1 /\ sink[2].attachments = <<>>
    /\ sink[3].panic = 2 /\ panics[2].capture = "err" /\ sink[3].attachments = <<>>

Unintegrated == {id \in DOMAIN panics : panics[id].client # <<>> /\ ~panics[id].client[1].has}

\* C20: a panic that goes through the chained hook while no PanicIntegration is among
\* the integrations of the hub's client (or no client is bound) gets no capture
\* attempt, no dump, no event and no flush; the previous hook is called, once.
C20_NoIntegrationNoCapture ==
    /\ \A id \in Unintegrated :
          /\ IsPrefix(panics[id].steps, <<"handler", "handler_ret", "prev">>)
          /\ panics[id].capture = "none" /\ panics[id].dump = <<>>
          /\ panics[id].integ = <<>>
          /\ EnvelopesOf(id) = {}
          /\ Len(panics[id].prev) <= 1
          /\ panics[id].done => panics[id].prev = <<[hook |-> PrevHook, info |-> id]>>
    /\ Len(sink) = Cardinality({id \in DOMAIN panics : Occurs(panics[id].steps, "dispatch")})
    /\ Len(flushes) = Cardinality({id \in DOMAIN panics : Occurs(panics[id].steps, "flush")})
    /\ Unintegrated = DOMAIN panics => ~fs.exists /\ sink = <<>> /\ flushes = <<>>

\* One panic was handled with the hook installed and no client bound yet, another
\* under a later client made with the toggle off; the previous hook ran for both.
C20_Witness ==
    /\ \E id \in Unintegrated : ~panics[id].client[1].bound /\ panics[id].done
    /\ \E id \in Unintegrated : panics[id].client[1].bound /\ panics[id].done
    /\ inits = 2
    /\ ~fs.exists

====
